---- MODULE Spec2Model ----
(***************************************************************************)
(* Model of omnisette's provider resolution layer (omnisette/src/lib.rs):  *)
(* AnisetteConfiguration, AnisetteHeadersProviderRes and the two entry     *)
(* points AnisetteHeaders::get_anisette_headers_provider and               *)
(* AnisetteHeaders::get_ssc_anisette_headers_provider.                     *)
(*                                                                         *)
(* The three backends (aos_kit, store_services_core/adi_proxy,             *)
(* remote_anisette) are collaborators: whether a fallible constructor of   *)
(* theirs returns Ok or Err is an input, drawn with \E in the step that    *)
(* calls it.  Every call site of lib.rs is one step of the calling thread, *)
(* so that calls of several threads interleave as the code lets them.      *)
(***************************************************************************)
EXTENDS Integers, Sequences, FiniteSets, TLC

\* ------------------------------------------------------------------ bounds
NumThreads == 2
MaxPathLen == 2

Threads == 1..NumThreads

\* ------------------------------------------------------------ input space
\* Bytes a path is made of: 'a' (0x61), and 0xC3 0xA9, which is U+00E9 when
\* the two bytes follow each other in this order and is not UTF-8 otherwise.
Bytes == {97, 195, 169}

RECURSIVE SeqsUpTo(_)
SeqsUpTo(n) ==
  IF n = 0 THEN {<<>>}
  ELSE LET shorter == SeqsUpTo(n - 1)
       IN shorter \cup {Append(s, b) : s \in {x \in shorter : Len(x) = n - 1}, b \in Bytes}

Paths == SeqsUpTo(MaxPathLen)

DEFAULT_ANISETTE_URL == "https://ani.wesbryie.com/"
URLs == {DEFAULT_ANISETTE_URL, "http://localhost:6969/"}

\* ---------------------------------------------------------- configuration
AnisetteConfiguration_new ==
  [anisette_url |-> DEFAULT_ANISETTE_URL, configuration_path |-> <<>>]

anisette_url(self) == self.anisette_url

configuration_path(self) == self.configuration_path

set_anisette_url(self, url) == [self EXCEPT !.anisette_url = url]

set_configuration_path(self, path) == [self EXCEPT !.configuration_path = path]

Configurations ==
  {set_configuration_path(set_anisette_url(AnisetteConfiguration_new, u), p) :
     u \in URLs, p \in Paths}

\* ------------------------------------------------------------------ errors
NoError == [kind |-> "none", field |-> ""]
UnsupportedDevice == [kind |-> "UnsupportedDevice", field |-> ""]
InvalidArgument(field) == [kind |-> "InvalidArgument", field |-> field]
\* errors of the collaborators, opaque to lib.rs
ProxyNewError == [kind |-> "StoreServicesCoreADIProxy::new", field |-> ""]
SetPathError == [kind |-> "set_provisioning_path", field |-> ""]
ProviderNewError == [kind |-> "ADIProxyAnisetteProvider::new", field |-> ""]

\* ------------------------------------------------------- provider handles
NoProvider == [kind |-> "none", path |-> <<>>, url |-> ""]
AOSKitAnisetteProvider == [kind |-> "AOSKit", path |-> <<>>, url |-> ""]
ADIProxyAnisetteProvider(path) == [kind |-> "ADIProxy", path |-> path, url |-> ""]
RemoteAnisetteProvider(url) == [kind |-> "Remote", path |-> <<>>, url |-> url]

NoHandle == [provider |-> NoProvider, provider_type |-> "none"]

local_mislabelled(provider) == [provider |-> provider, provider_type |-> "Remote"]

local(provider) == [provider |-> provider, provider_type |-> "Local"]

remote(provider) == [provider |-> provider, provider_type |-> "Remote"]

Ok(handle) == [ok |-> TRUE, handle |-> handle, err |-> NoError]
Err(e) == [ok |-> FALSE, handle |-> NoHandle, err |-> e]
NoResult == [ok |-> FALSE, handle |-> NoHandle, err |-> NoError]

\* ------------------------------------------------------------ Path::to_str
\* Path::to_str yields Some(the same bytes) exactly when the bytes are valid
\* UTF-8.  Lead bytes of three- and four-byte sequences are outside Bytes.
RECURSIVE IsUtf8(_)
IsUtf8(s) ==
  IF Len(s) = 0 THEN TRUE
  ELSE IF s[1] < 128 THEN IsUtf8(Tail(s))
  ELSE IF s[1] >= 194 /\ s[1] <= 223
       THEN /\ Len(s) >= 2
            /\ s[2] >= 128 /\ s[2] <= 191
            /\ IsUtf8(Tail(Tail(s)))
  ELSE FALSE

Some(v) == [some |-> TRUE, val |-> v]
None == [some |-> FALSE, val |-> <<>>]

\* what a lossy conversion would hand on instead: every byte that does not
\* start a valid sequence becomes U+FFFD (EF BF BD)
RECURSIVE Lossy(_)
Lossy(s) ==
  IF Len(s) = 0 THEN <<>>
  ELSE IF s[1] < 128 THEN <<s[1]>> \o Lossy(Tail(s))
  ELSE IF s[1] >= 194 /\ s[1] <= 223 /\ Len(s) >= 2 /\ s[2] >= 128 /\ s[2] <= 191
       THEN <<s[1], s[2]>> \o Lossy(Tail(Tail(s)))
  ELSE <<239, 191, 189>> \o Lossy(Tail(s))

to_str_lossy(path) == Some(Lossy(path))

to_str(path) == IF IsUtf8(path) THEN Some(path) ELSE None

\* ------------------------------------------------------------------- state
VARIABLES
  macos,            \* cfg(target_os = "macos")
  remote_anisette,  \* cfg(feature = "remote-anisette")
  configuration,    \* per thread: the AnisetteConfiguration its caller built
  entry,            \* per thread: the function its caller called
  pc,               \* per thread: position in lib.rs
  sscArg,           \* per thread: the parameter of get_ssc_anisette_headers_provider
  config_path,      \* per thread: the Option<&str> of line 147
  attempts,         \* per thread: the backends the resolver attempted, in order
  calls,            \* per thread: the calls made into the local backend, in order
  sscRes,           \* per thread: what get_ssc_anisette_headers_provider returned
  result            \* per thread: what the caller received

vars == <<macos, remote_anisette, configuration, entry, pc, sscArg, config_path,
          attempts, calls, sscRes, result>>

build == <<macos, remote_anisette>>

\* -------------------------------------------------------------------- Init
InitCommon ==
  /\ macos \in BOOLEAN
  /\ remote_anisette \in BOOLEAN
  /\ entry = [t \in Threads |-> "none"]
  /\ sscArg = [t \in Threads |-> AnisetteConfiguration_new]
  /\ config_path = [t \in Threads |-> None]
  /\ attempts = [t \in Threads |-> <<>>]
  /\ calls = [t \in Threads |-> <<>>]
  /\ sscRes = [t \in Threads |-> NoResult]
  /\ result = [t \in Threads |-> NoResult]

\* one caller, any configuration
Init ==
  /\ InitCommon
  /\ \E c \in Configurations :
       configuration = [t \in Threads |-> IF t = 1 THEN c ELSE AnisetteConfiguration_new]
  /\ pc = [t \in Threads |-> IF t = 1 THEN "idle" ELSE "unused"]

\* several threads, each about to resolve the same configuration
InitConc ==
  /\ InitCommon
  /\ \E c \in Configurations : configuration = [t \in Threads |-> c]
  /\ pc = [t \in Threads |-> "idle"]


\* ----------------------------------------------------------------- helpers
AOSKitError == [kind |-> "AOSKitAnisetteProvider::new", field |-> ""]

Attempt(backend, outcome) == [backend |-> backend, outcome |-> outcome]

Call(op, path, str, ok) == [op |-> op, path |-> path, str |-> str, ok |-> ok]

SetLast(s, outcome) == [s EXCEPT ![Len(s)].outcome = outcome]

\* line 119: the native attempt exists only in a macOS build
FirstStep == IF macos THEN "native" ELSE "ssc_call"

LastStep_cfg_forgotten == "remote"

\* lines 131 and 136: the tail of the resolver is chosen by the feature
LastStep == IF remote_anisette THEN "remote" ELSE "bail"

\* ----------------------------------------------------------------- actions
\* lines 116-118: a caller enters the resolver with its configuration
Call_get_anisette_headers_provider(t) ==
  /\ pc[t] = "idle"
  /\ entry' = [entry EXCEPT ![t] = "resolver"]
  /\ pc' = [pc EXCEPT ![t] = FirstStep]
  /\ UNCHANGED <<build, configuration, sscArg, config_path, attempts, calls,
                 sscRes, result>>

AOSKitAnisetteProvider_new_no_return(t) ==
  /\ pc[t] = "native"
  /\ \E ok \in BOOLEAN :
       /\ attempts' = [attempts EXCEPT
            ![t] = Append(@, Attempt("Native", IF ok THEN "ok" ELSE "failed"))]
       /\ result' = [result EXCEPT
            ![t] = IF ok THEN Ok(local(AOSKitAnisetteProvider)) ELSE @]
       /\ pc' = [pc EXCEPT ![t] = "ssc_call"]
  /\ UNCHANGED <<build, configuration, entry, sscArg, config_path, calls, sscRes>>

AOSKitAnisetteProvider_new_propagating(t) ==
  /\ pc[t] = "native"
  /\ \E ok \in BOOLEAN :
       /\ attempts' = [attempts EXCEPT
            ![t] = Append(@, Attempt("Native", IF ok THEN "ok" ELSE "failed"))]
       /\ result' = [result EXCEPT
            ![t] = IF ok THEN Ok(local(AOSKitAnisetteProvider)) ELSE Err(AOSKitError)]
       /\ pc' = [pc EXCEPT ![t] = "done"]
  /\ UNCHANGED <<build, configuration, entry, sscArg, config_path, calls, sscRes>>

\* lines 119-122: the platform-native backend; Ok returns, Err is dropped
AOSKitAnisetteProvider_new(t) ==
  /\ pc[t] = "native"
  /\ \E ok \in BOOLEAN :
       /\ attempts' = [attempts EXCEPT
            ![t] = Append(@, Attempt("Native", IF ok THEN "ok" ELSE "failed"))]
       /\ result' = [result EXCEPT
            ![t] = IF ok THEN Ok(local(AOSKitAnisetteProvider)) ELSE @]
       /\ pc' = [pc EXCEPT ![t] = IF ok THEN "done" ELSE "ssc_call"]
  /\ UNCHANGED <<build, configuration, entry, sscArg, config_path, calls, sscRes>>

\* lines 125-126: the resolver calls the local backend's constructor with a
\* clone of its configuration
Resolver_calls_ssc(t) ==
  /\ pc[t] = "ssc_call"
  /\ sscArg' = [sscArg EXCEPT ![t] = configuration[t]]
  /\ attempts' = [attempts EXCEPT ![t] = Append(@, Attempt("Local", "pending"))]
  /\ pc' = [pc EXCEPT ![t] = "ssc_new"]
  /\ UNCHANGED <<build, configuration, entry, config_path, calls, sscRes, result>>

\* lines 140-142: a caller enters get_ssc_anisette_headers_provider directly
Call_get_ssc_anisette_headers_provider(t) ==
  /\ pc[t] = "idle"
  /\ entry' = [entry EXCEPT ![t] = "ssc"]
  /\ sscArg' = [sscArg EXCEPT ![t] = configuration[t]]
  /\ pc' = [pc EXCEPT ![t] = "ssc_new"]
  /\ UNCHANGED <<build, configuration, config_path, attempts, calls, sscRes, result>>

StoreServicesCoreADIProxy_new_unchecked(t) ==
  /\ pc[t] = "ssc_new"
  /\ \E ok \in BOOLEAN :
       /\ calls' = [calls EXCEPT ![t] = Append(@,
            Call("StoreServicesCoreADIProxy::new", configuration_path(sscArg[t]), <<>>, ok))]
       /\ pc' = [pc EXCEPT ![t] = "ssc_to_str"]
  /\ UNCHANGED <<build, configuration, entry, sscArg, config_path, attempts,
                 sscRes, result>>

\* lines 143-145: step (a), the proxy over configuration_path; `?` returns Err
StoreServicesCoreADIProxy_new(t) ==
  /\ pc[t] = "ssc_new"
  /\ \E ok \in BOOLEAN :
       /\ calls' = [calls EXCEPT ![t] = Append(@,
            Call("StoreServicesCoreADIProxy::new", configuration_path(sscArg[t]), <<>>, ok))]
       /\ sscRes' = [sscRes EXCEPT ![t] = IF ok THEN @ ELSE Err(ProxyNewError)]
       /\ pc' = [pc EXCEPT ![t] = IF ok THEN "ssc_to_str" ELSE "ssc_ret"]
  /\ UNCHANGED <<build, configuration, entry, sscArg, config_path, attempts, result>>

\* lines 146-148: the argument of set_provisioning_path is evaluated first;
\* None becomes InvalidArgument("configuration.configuration_path")
config_path_to_str(t) ==
  /\ pc[t] = "ssc_to_str"
  /\ LET s == to_str(configuration_path(sscArg[t]))
     IN /\ config_path' = [config_path EXCEPT ![t] = s]
        /\ calls' = [calls EXCEPT ![t] = Append(@,
             Call("to_str", configuration_path(sscArg[t]), s.val, s.some))]
        /\ sscRes' = [sscRes EXCEPT ![t] =
             IF s.some THEN @
             ELSE Err(InvalidArgument("configuration.configuration_path"))]
        /\ pc' = [pc EXCEPT ![t] = IF s.some THEN "ssc_set" ELSE "ssc_ret"]
  /\ UNCHANGED <<build, configuration, entry, sscArg, attempts, result>>

\* lines 147-149: step (b), the provisioning path as a string; `?` returns Err
set_provisioning_path(t) ==
  /\ pc[t] = "ssc_set"
  /\ \E ok \in BOOLEAN :
       /\ calls' = [calls EXCEPT ![t] = Append(@,
            Call("set_provisioning_path", <<>>, config_path[t].val, ok))]
       /\ sscRes' = [sscRes EXCEPT ![t] = IF ok THEN @ ELSE Err(SetPathError)]
       /\ pc' = [pc EXCEPT ![t] = IF ok THEN "ssc_wrap" ELSE "ssc_ret"]
  /\ UNCHANGED <<build, configuration, entry, sscArg, config_path, attempts, result>>

\* lines 150-152: step (c), the provider adapter over the proxy and the path
ADIProxyAnisetteProvider_new(t) ==
  /\ pc[t] = "ssc_wrap"
  /\ \E ok \in BOOLEAN :
       /\ calls' = [calls EXCEPT ![t] = Append(@,
            Call("ADIProxyAnisetteProvider::new", configuration_path(sscArg[t]), <<>>, ok))]
       /\ sscRes' = [sscRes EXCEPT ![t] =
            IF ok THEN Ok(local(ADIProxyAnisetteProvider(configuration_path(sscArg[t]))))
            ELSE Err(ProviderNewError)]
       /\ pc' = [pc EXCEPT ![t] = "ssc_ret"]
  /\ UNCHANGED <<build, configuration, entry, sscArg, config_path, attempts, result>>

ssc_returns_no_return(t) ==
  /\ pc[t] = "ssc_ret"
  /\ IF entry[t] = "ssc"
     THEN /\ result' = [result EXCEPT ![t] = sscRes[t]]
          /\ pc' = [pc EXCEPT ![t] = "done"]
          /\ UNCHANGED attempts
     ELSE /\ attempts' = [attempts EXCEPT
               ![t] = SetLast(@, IF sscRes[t].ok THEN "ok" ELSE "failed")]
          /\ result' = [result EXCEPT ![t] = IF sscRes[t].ok THEN sscRes[t] ELSE @]
          /\ pc' = [pc EXCEPT ![t] = LastStep]
  /\ UNCHANGED <<build, configuration, entry, sscArg, config_path, calls, sscRes>>

ssc_returns_propagating(t) ==
  /\ pc[t] = "ssc_ret"
  /\ IF entry[t] = "ssc"
     THEN /\ result' = [result EXCEPT ![t] = sscRes[t]]
          /\ pc' = [pc EXCEPT ![t] = "done"]
          /\ UNCHANGED attempts
     ELSE /\ attempts' = [attempts EXCEPT
               ![t] = SetLast(@, IF sscRes[t].ok THEN "ok" ELSE "failed")]
          /\ result' = [result EXCEPT ![t] = sscRes[t]]
          /\ pc' = [pc EXCEPT ![t] = "done"]
  /\ UNCHANGED <<build, configuration, entry, sscArg, config_path, calls, sscRes>>

\* get_ssc_anisette_headers_provider returns: to its direct caller as it is
\* (lines 145, 149, 150-152); to the resolver, which returns an Ok and drops
\* an Err (lines 125-129)
ssc_returns(t) ==
  /\ pc[t] = "ssc_ret"
  /\ IF entry[t] = "ssc"
     THEN /\ result' = [result EXCEPT ![t] = sscRes[t]]
          /\ pc' = [pc EXCEPT ![t] = "done"]
          /\ UNCHANGED attempts
     ELSE /\ attempts' = [attempts EXCEPT
               ![t] = SetLast(@, IF sscRes[t].ok THEN "ok" ELSE "failed")]
          /\ result' = [result EXCEPT ![t] = IF sscRes[t].ok THEN sscRes[t] ELSE @]
          /\ pc' = [pc EXCEPT ![t] = IF sscRes[t].ok THEN "done" ELSE LastStep]
  /\ UNCHANGED <<build, configuration, entry, sscArg, config_path, calls, sscRes>>

RemoteAnisetteProvider_new_local_tag(t) ==
  /\ pc[t] = "remote"
  /\ attempts' = [attempts EXCEPT ![t] = Append(@, Attempt("Remote", "ok"))]
  /\ result' = [result EXCEPT
       ![t] = Ok(local(RemoteAnisetteProvider(anisette_url(configuration[t]))))]
  /\ pc' = [pc EXCEPT ![t] = "done"]
  /\ UNCHANGED <<build, configuration, entry, sscArg, config_path, calls, sscRes>>

\* lines 131-134: the remote backend over configuration.anisette_url; its
\* constructor returns the provider itself, there is no Err to handle
RemoteAnisetteProvider_new(t) ==
  /\ pc[t] = "remote"
  /\ attempts' = [attempts EXCEPT ![t] = Append(@, Attempt("Remote", "ok"))]
  /\ result' = [result EXCEPT
       ![t] = Ok(remote(RemoteAnisetteProvider(anisette_url(configuration[t]))))]
  /\ pc' = [pc EXCEPT ![t] = "done"]
  /\ UNCHANGED <<build, configuration, entry, sscArg, config_path, calls, sscRes>>

\* lines 136-137: without the remote feature the resolver gives up
bail_UnsupportedDevice(t) ==
  /\ pc[t] = "bail"
  /\ result' = [result EXCEPT ![t] = Err(UnsupportedDevice)]
  /\ pc' = [pc EXCEPT ![t] = "done"]
  /\ UNCHANGED <<build, configuration, entry, sscArg, config_path, attempts,
                 calls, sscRes>>

Next ==
  \E t \in Threads :
    \/ Call_get_anisette_headers_provider(t)
    \/ AOSKitAnisetteProvider_new(t)
    \/ Resolver_calls_ssc(t)
    \/ Call_get_ssc_anisette_headers_provider(t)
    \/ StoreServicesCoreADIProxy_new(t)
    \/ config_path_to_str(t)
    \/ set_provisioning_path(t)
    \/ ADIProxyAnisetteProvider_new(t)
    \/ ssc_returns(t)
    \/ RemoteAnisetteProvider_new(t)
    \/ bail_UnsupportedDevice(t)

Spec == Init /\ [][Next]_vars

SpecConc == InitConc /\ [][Next]_vars


\* -------------------------------------------------- vocabulary of the claims
\* the backends this build can attempt, highest priority first
EligibleOrder ==
  (IF macos THEN <<"Native">> ELSE <<>>) \o <<"Local">>
    \o (IF remote_anisette THEN <<"Remote">> ELSE <<>>)

Resolving(t) == entry[t] = "resolver"

Resolved(t) == entry[t] = "resolver" /\ pc[t] = "done"

\* the native backend is not compiled in, or was attempted and failed
NativeUnavailable(t) ==
  \/ ~macos
  \/ Len(attempts[t]) >= 1 /\ attempts[t][1] = Attempt("Native", "failed")

\* the local backend was attempted and failed
LocalFailed(t) ==
  \E i \in 1..Len(attempts[t]) : attempts[t][i] = Attempt("Local", "failed")

PathEncodable(t) == to_str(configuration_path(configuration[t])).some

PathError == InvalidArgument("configuration.configuration_path")

BackendErrors == {AOSKitError, ProxyNewError, PathError, SetPathError, ProviderNewError}

SscOrder == <<"StoreServicesCoreADIProxy::new", "to_str", "set_provisioning_path",
              "ADIProxyAnisetteProvider::new">>

SscErrorOf(op) ==
  CASE op = "StoreServicesCoreADIProxy::new" -> ProxyNewError
    [] op = "to_str" -> PathError
    [] op = "set_provisioning_path" -> SetPathError
    [] op = "ADIProxyAnisetteProvider::new" -> ProviderNewError

\* get_ssc_anisette_headers_provider has been called and has returned
SscReturned(t) ==
  Len(calls[t]) > 0 /\ pc[t] \notin {"ssc_to_str", "ssc_set", "ssc_wrap"}

\* a proxy over the thread's directory exists and its construction of the
\* local backend is still going on
HoldsDirectory(t) == pc[t] \in {"ssc_to_str", "ssc_set", "ssc_wrap"}

\* ------------------------------------------------------------------ claims
\* C1: in every call of get_anisette_headers_provider the attempts follow the
\* fixed order native, local, remote restricted to what the build has; no
\* backend is attempted twice; a backend is attempted only after every
\* backend before it was attempted and failed; nothing is attempted after a
\* success, and the call succeeds exactly when its last attempt did.
C1_AttemptOrder ==
  \A t \in Threads : Resolving(t) =>
    LET a == attempts[t]
    IN /\ Len(a) <= Len(EligibleOrder)
       /\ \A i \in 1..Len(a) :
            /\ a[i].backend = EligibleOrder[i]
            /\ i < Len(a) => a[i].outcome = "failed"
       /\ pc[t] = "done" =>
            /\ Len(a) >= 1
            /\ result[t].ok <=> a[Len(a)].outcome = "ok"

C1_Witness ==
  /\ Resolved(1)
  /\ attempts[1] = <<Attempt("Native", "failed"), Attempt("Local", "failed"),
                     Attempt("Remote", "ok")>>

\* C2: when the native backend failed or is not compiled in and the local
\* backend's construction succeeded, the resolver returns the local backend's
\* handle, tagged Local, and the remote backend is never attempted.
C2_LocalBeatsRemote ==
  \A t \in Threads :
    (Resolving(t) /\ NativeUnavailable(t) /\ sscRes[t].ok) =>
      /\ \A i \in 1..Len(attempts[t]) : attempts[t][i].backend # "Remote"
      /\ pc[t] \in {"ssc_ret", "done"}
      /\ pc[t] = "done" =>
           /\ result[t] = sscRes[t]
           /\ result[t].handle.provider_type = "Local"
           /\ result[t].handle.provider.kind = "ADIProxy"

C2_Witness ==
  /\ Resolved(1) /\ macos /\ remote_anisette
  /\ attempts[1] = <<Attempt("Native", "failed"), Attempt("Local", "ok")>>
  /\ result[1].handle.provider_type = "Local"

\* C3 as stated: with a path that cannot be encoded and neither the native nor
\* the remote backend available, resolution fails with
\* InvalidArgument("configuration.configuration_path").
C3_AsStated ==
  \A t \in Threads :
    (Resolved(t) /\ ~remote_anisette /\ NativeUnavailable(t) /\ ~PathEncodable(t)) =>
      result[t] = Err(PathError)

\* C3 amended: in that case resolution fails with UnsupportedDevice; the local
\* backend's constructor has failed, with InvalidArgument(
\* "configuration.configuration_path") exactly when its proxy was constructed,
\* and the resolver has dropped that failure.
C3_Amended ==
  \A t \in Threads :
    (Resolved(t) /\ ~remote_anisette /\ NativeUnavailable(t) /\ ~PathEncodable(t)) =>
      /\ result[t] = Err(UnsupportedDevice)
      /\ ~sscRes[t].ok
      /\ sscRes[t].err = PathError <=> calls[t][1].ok

C3_Witness ==
  /\ Resolved(1) /\ ~remote_anisette /\ ~macos /\ ~PathEncodable(1)
  /\ sscRes[1] = Err(PathError)
  /\ result[1] = Err(UnsupportedDevice)

\* C4: when no backend is viable (native absent or failed, local failed,
\* remote not compiled in) the resolver fails with UnsupportedDevice.
C4_UnsupportedDevice ==
  \A t \in Threads :
    (Resolving(t) /\ ~remote_anisette /\ NativeUnavailable(t) /\ LocalFailed(t)) =>
      /\ pc[t] \in {"bail", "done"}
      /\ pc[t] = "done" => result[t] = Err(UnsupportedDevice)

C4_Witness ==
  /\ Resolved(1) /\ macos /\ ~remote_anisette
  /\ attempts[1] = <<Attempt("Native", "failed"), Attempt("Local", "failed")>>
  /\ sscRes[1] = Err(ProxyNewError)
  /\ result[1] = Err(UnsupportedDevice)

\* C5: the resolver returns an error only after every backend of the build
\* was attempted and failed, and the error it returns is never the failure of
\* one of the backends.
C5_ErrorsAbsorbed ==
  \A t \in Threads :
    (Resolved(t) /\ ~result[t].ok) =>
      /\ Len(attempts[t]) = Len(EligibleOrder)
      /\ \A i \in 1..Len(attempts[t]) :
           attempts[t][i] = Attempt(EligibleOrder[i], "failed")
      /\ result[t].err \notin BackendErrors
      /\ result[t].err = UnsupportedDevice

C5_Witness ==
  /\ Resolved(1) /\ macos /\ ~result[1].ok
  /\ sscRes[1] = Err(SetPathError)
  /\ Len(attempts[1]) = 2

\* C6: with remote support compiled in the resolver never returns an error,
\* and when the native backend is absent or failed and the local backend
\* failed it returns the remote backend over the configured URL, tagged
\* Remote, whatever configuration_path is.
C6_RemoteAlwaysResolves ==
  \A t \in Threads :
    (Resolved(t) /\ remote_anisette) =>
      /\ result[t].ok
      /\ (NativeUnavailable(t) /\ LocalFailed(t)) =>
           /\ result[t].handle.provider_type = "Remote"
           /\ result[t].handle.provider.kind = "Remote"

C6_Witness ==
  /\ Resolved(1) /\ remote_anisette /\ ~macos /\ ~PathEncodable(1)
  /\ sscRes[1] = Err(PathError)
  /\ result[1].ok /\ result[1].handle.provider_type = "Remote"

\* C7: every handle returned by either entry point is tagged Local exactly
\* when it wraps the native or the local provisioned-identity backend and
\* Remote exactly when it wraps the remote backend.
C7_TagMatchesBackend ==
  \A t \in Threads : \A r \in {result[t], sscRes[t]} :
    r.ok =>
      /\ r.handle.provider_type \in {"Local", "Remote"}
      /\ r.handle.provider.kind \in {"AOSKit", "ADIProxy", "Remote"}
      /\ r.handle.provider_type = "Local" <=> r.handle.provider.kind \in {"AOSKit", "ADIProxy"}
      /\ r.handle.provider_type = "Remote" <=> r.handle.provider.kind = "Remote"

C7_Witness ==
  /\ entry[1] = "ssc" /\ pc[1] = "done"
  /\ result[1].ok
  /\ result[1].handle.provider.kind = "ADIProxy"
  /\ result[1].handle.provider_type = "Local"

\* C8: the caller's configuration is never changed, and what the backends
\* are handed is what the caller put in it: configuration_path to the proxy's
\* constructor, to set_provisioning_path (as a string of the same bytes) and
\* to the provider adapter, anisette_url to the remote backend.
ArgumentsAreCallers ==
  \A t \in Threads :
    /\ \A i \in 1..Len(calls[t]) :
         LET c == calls[t][i]
         IN IF c.op = "set_provisioning_path"
            THEN c.str = configuration_path(configuration[t])
            ELSE c.path = configuration_path(configuration[t])
    /\ \A r \in {result[t], sscRes[t]} :
         /\ (r.ok /\ r.handle.provider.kind = "ADIProxy") =>
              r.handle.provider.path = configuration_path(configuration[t])
         /\ (r.ok /\ r.handle.provider.kind = "Remote") =>
              r.handle.provider.url = anisette_url(configuration[t])

C8_ConfigurationPassedThrough ==
  [](ArgumentsAreCallers) /\ [][configuration' = configuration]_vars

C8_Witness ==
  /\ Resolved(1)
  /\ configuration[1] = [anisette_url |-> "http://localhost:6969/",
                         configuration_path |-> <<195, 169>>]
  /\ Len(calls[1]) = 3 /\ ~calls[1][3].ok
  /\ result[1] = Ok(remote(RemoteAnisetteProvider("http://localhost:6969/")))

\* C9: threads resolving the same configuration_path never have two local
\* backend constructions going on over that directory at the same time.
C9_Serialized ==
  \A t1, t2 \in Threads :
    (/\ t1 # t2
     /\ Resolving(t1) /\ Resolving(t2)
     /\ HoldsDirectory(t1) /\ HoldsDirectory(t2)) =>
      configuration_path(sscArg[t1]) # configuration_path(sscArg[t2])

\* C10: get_ssc_anisette_headers_provider constructs the proxy, converts the
\* path and sets it, then wraps the proxy, in this order; the first failing
\* step ends the call with that step's error and no later step runs;
\* InvalidArgument("configuration.configuration_path") is returned only after
\* the proxy was constructed; Ok, tagged Local, only when every step
\* succeeded; and a direct caller receives exactly what the function returns.
C10_SscSteps ==
  \A t \in Threads :
    LET c == calls[t]
    IN /\ Len(c) <= Len(SscOrder)
       /\ \A i \in 1..Len(c) :
            /\ c[i].op = SscOrder[i]
            /\ i < Len(c) => c[i].ok
       /\ SscReturned(t) =>
            /\ sscRes[t].ok <=> (Len(c) = Len(SscOrder) /\ c[Len(c)].ok)
            /\ sscRes[t].ok =>
                 sscRes[t].handle = [provider |-> ADIProxyAnisetteProvider(
                                                    configuration_path(sscArg[t])),
                                     provider_type |-> "Local"]
            /\ ~sscRes[t].ok =>
                 /\ ~c[Len(c)].ok
                 /\ sscRes[t].err = SscErrorOf(c[Len(c)].op)
            /\ sscRes[t].err = PathError => (Len(c) = 2 /\ c[1].ok)
       /\ (entry[t] = "ssc" /\ pc[t] = "done") => result[t] = sscRes[t]

C10_Witness ==
  /\ entry[1] = "ssc" /\ pc[1] = "done"
  /\ result[1] = Err(PathError)
  /\ Len(calls[1]) = 2 /\ calls[1][1].ok /\ ~calls[1][2].ok

====
